---- MODULE Spec2Model ----
(***************************************************************************)
(* Money values and the currency registry of py-moneyed                    *)
(* (src/moneyed/classes.py).                                               *)
(*                                                                         *)
(* The state is the two module-level registry dicts, the position of the   *)
(* module's import in its table of add_currency statements, the Money      *)
(* objects a caller holds, and the outcome of the last call.  Every        *)
(* operation of the module is one action.  Decimal arithmetic is the       *)
(* arithmetic of Python's decimal module under its default context         *)
(* (ROUND_HALF_EVEN, a fixed number of significant digits), with the       *)
(* number of digits scaled down.                                           *)
(***************************************************************************)
EXTENDS Integers, Sequences, FiniteSets, TLC

VARIABLES CURRENCIES, CURRENCIES_BY_ISO, loaded, extra, monies, ret

vars == <<CURRENCIES, CURRENCIES_BY_ISO, loaded, extra, monies, ret>>

(***************************************************************************)
(* Bounds of the model.                                                    *)
(***************************************************************************)
\* significant digits of the decimal context (28 in Python's default context)
DecPrec == 3
\* largest coefficient of an amount a caller constructs
MaxCoef == 2
\* exponent of the large amounts a caller constructs (1E+BigExp)
BigExp == 3
\* number of add_currency calls made after the module's import
MaxRegs == 1

(***************************************************************************)
(* Python values.                                                          *)
(***************************************************************************)
\* Python's None, distinct from every str of the model
None == "<None>"

\* line 16
DEFAULT_CURRENCY_CODE == "XYZ"

(***************************************************************************)
(* decimal.Decimal: a finite number c * 10^e.  Python compares Decimals    *)
(* numerically, so the model keeps them normalised (c not divisible by 10, *)
(* zero as 0 * 10^0) and equal numbers are equal records.                  *)
(***************************************************************************)
RECURSIVE Pow10(_)
Pow10(n) == IF n <= 0 THEN 1 ELSE 10 * Pow10(n - 1)

Abs(n) == IF n < 0 THEN -n ELSE n

Sign(n) == IF n < 0 THEN -1 ELSE 1

RECURSIVE Digits(_)
\* number of decimal digits of n >= 0 (0 has one digit)
Digits(n) == IF n < 10 THEN 1 ELSE 1 + Digits(n \div 10)

RECURSIVE Norm(_, _)
Norm(c, e) ==
    IF c = 0 THEN [c |-> 0, e |-> 0]
    ELSE IF c % 10 = 0 THEN Norm(c \div 10, e + 1)
    ELSE [c |-> c, e |-> e]

Dec(c, e) == Norm(c, e)

DecZero == Dec(0, 0)

\* the context's rounding of the exact value c * 10^e: at most DecPrec
\* significant digits, ties to the even neighbour (ROUND_HALF_EVEN)
DecRound(c, e) ==
    LET n == Abs(c)
        k == Digits(n) - DecPrec
    IN  IF k <= 0 THEN Norm(c, e)
        ELSE LET q    == n \div Pow10(k)
                 r    == n % Pow10(k)
                 half == 5 * Pow10(k - 1)
                 up   == r > half \/ (r = half /\ q % 2 = 1)
             IN  Norm(Sign(c) * (IF up THEN q + 1 ELSE q), e + k)

\* TRUE iff the exact value c * 10^e needs no rounding in the context
DecExact(c, e) == Digits(Abs(Norm(c, e).c)) <= DecPrec

Min(x, y) == IF x <= y THEN x ELSE y

\* coefficient of x at the exponent e <= x.e
Coef(x, e) == x.c * Pow10(x.e - e)

\* x + y exactly, as <<coefficient, exponent>>
ExactSum(x, y) ==
    LET e == Min(x.e, y.e) IN <<Coef(x, e) + Coef(y, e), e>>

\* Decimal.__add__
DecAdd(x, y) == DecRound(ExactSum(x, y)[1], ExactSum(x, y)[2])

\* Decimal.__neg__ (the unary operators round to the context too)
DecNeg(x) == DecRound(-x.c, x.e)

\* Decimal.__abs__
DecAbs(x) == DecRound(Abs(x.c), x.e)

\* Decimal.__mul__
DecMul(x, y) == DecRound(x.c * y.c, x.e + y.e)

\* -1, 0, 1 as x <, =, > y
DecCmp(x, y) ==
    LET e == Min(x.e, y.e)
        l == Coef(x, e)
        r == Coef(y, e)
    IN  IF l < r THEN -1 ELSE IF l > r THEN 1 ELSE 0

DecEq(x, y) == DecCmp(x, y) = 0

DecLt(x, y) == DecCmp(x, y) < 0

DecGt(x, y) == DecCmp(x, y) > 0

\* bool(Decimal)
DecBool(x) == x.c # 0

(***************************************************************************)
(* Outcomes of a call: a returned value or a raised exception, and whether *)
(* warnings.warn was called with a DeprecationWarning on the way.          *)
(***************************************************************************)
Return(v) == [kind |-> "return", val |-> v, warn |-> FALSE]

Raise(exc, arg) == [kind |-> "raise", exc |-> exc, arg |-> arg, warn |-> FALSE]

Warned(o) == [o EXCEPT !.warn = TRUE]

\* Decimal.__truediv__: DivisionByZero and InvalidOperation are trapped by
\* the default context
DecDiv(x, y) ==
    IF y.c = 0
    THEN IF x.c = 0 THEN Raise("InvalidOperation", "DivisionUndefined")
         ELSE Raise("DivisionByZero", "DivisionByZero")
    ELSE LET n      == Abs(x.c)
             d      == Abs(y.c)
             s      == DecPrec + Digits(d) - Digits(n) + 1
             q      == (n * Pow10(s)) \div d
             sticky == IF (n * Pow10(s)) % d = 0 THEN 0 ELSE 1
         IN  Return(DecRound(Sign(x.c) * Sign(y.c) * (10 * q + sticky),
                             x.e - y.e - s - 1))

\* Decimal.quantize(Decimal('1e' + str(-ndigits))): the value rounded to the
\* exponent -ndigits; InvalidOperation when the coefficient would have more
\* digits than the context allows
DecQuantize(x, ndigits) ==
    LET e == -ndigits
    IN  IF x.e >= e
        THEN IF x.c # 0 /\ Digits(Abs(x.c)) + (x.e - e) > DecPrec
             THEN Raise("InvalidOperation", "quantize result has too many digits")
             ELSE Return(x)
        ELSE LET n    == Abs(x.c)
                 k    == e - x.e
                 q    == n \div Pow10(k)
                 r    == n % Pow10(k)
                 half == 5 * Pow10(k - 1)
                 up   == r > half \/ (r = half /\ q % 2 = 1)
                 m    == IF up THEN q + 1 ELSE q
             IN  IF Digits(m) > DecPrec
                 THEN Raise("InvalidOperation", "quantize result has too many digits")
                 ELSE Return(Norm(Sign(x.c) * m, e))

(***************************************************************************)
(* Python objects, each tagged with its type.                              *)
(***************************************************************************)
PyInt(n) == [ty |-> "int", val |-> Dec(n, 0)]

\* a float, held as the Decimal that str() of it reads back as
PyFloat(c, e) == [ty |-> "float", val |-> Dec(c, e)]

PyDecimal(d) == [ty |-> "Decimal", val |-> d]

PyBool(v) == [ty |-> "bool", val |-> v]

PyStr(s) == [ty |-> "str", val |-> s]

\* the int hash() returns, held as what was hashed
PyHash(h) == [ty |-> "hash", val |-> h]

PyNone == [ty |-> "NoneType"]

\* the int n of a PyInt
IntOf(x) == x.val.c * Pow10(x.val.e)

isinstance(x, t) == x.ty = t

IsNumber(x) == x.ty \in {"int", "float", "Decimal"}

\* str.upper() on the code strings of the model
upper(s) ==
    CASE s = "usd" -> "USD"
      [] s = "eur" -> "EUR"
      [] s = "zzz" -> "ZZZ"
      [] OTHER -> s

\* lines 21-25: Decimal(str(amount)) for what is no Decimal; the text of an
\* int or a float reads back as a Decimal, other text is a conversion error
force_decimal(amount) ==
    IF isinstance(amount, "Decimal") THEN Return(amount.val)
    ELSE IF IsNumber(amount) THEN Return(amount.val)
    ELSE Raise("InvalidOperation", "ConversionSyntax")

(***************************************************************************)
(* Currency (lines 28-60) and the registry (lines 301-322).                *)
(***************************************************************************)
Currency(code, numeric) == [ty |-> "Currency", code |-> code, numeric |-> numeric]

\* lines 47-48
CurrencyEq(self, other) == self.ty = other.ty /\ self.code = other.code

\* dict[k] = v
Put(d, k, v) == [x \in DOMAIN d \cup {k} |-> IF x = k THEN v ELSE d[x]]

EmptyDict == [x \in {} |-> x]

\* add_currency keeping the Currency a code already has
add_currency_BY_CODE_KeepOld(code, numeric) ==
    IF code \in DOMAIN CURRENCIES THEN CURRENCIES
    ELSE Put(CURRENCIES, code, Currency(code, numeric))

\* lines 305-313: the two dicts after add_currency(code, numeric)
add_currency_BY_CODE(code, numeric) == Put(CURRENCIES, code, Currency(code, numeric))

\* add_currency keeping the first currency registered under a numeric
add_currency_BY_ISO_FirstWins(code, numeric) ==
    IF numeric \in DOMAIN CURRENCIES_BY_ISO THEN CURRENCIES_BY_ISO
    ELSE Put(CURRENCIES_BY_ISO, numeric, add_currency_BY_CODE(code, numeric)[code])

add_currency_BY_ISO(code, numeric) ==
    Put(CURRENCIES_BY_ISO, numeric, add_currency_BY_CODE(code, numeric)[code])

\* lines 316-322
get_currency(code, iso) ==
    IF iso # None /\ iso # ""
    THEN IF iso \in DOMAIN CURRENCIES_BY_ISO
         THEN Return(CURRENCIES_BY_ISO[iso])
         ELSE Raise("CurrencyDoesNotExist", code)
    ELSE IF code \in DOMAIN CURRENCIES
         THEN Return(CURRENCIES[code])
         ELSE Raise("CurrencyDoesNotExist", code)

(***************************************************************************)
(* Money (lines 126-294).                                                  *)
(***************************************************************************)
Money(amount, currency) == [ty |-> "Money", amount |-> amount, currency |-> currency]

\* Money.__init__ building a Currency from a str instead of looking it up
Money__init__NoLookup(amount, currency) ==
    LET d == force_decimal(amount)
        c == IF isinstance(currency, "Currency") THEN currency
             ELSE Currency(upper(currency.val), None)
    IN  IF d.kind = "raise" THEN d ELSE Return(Money(d.val, c))

\* lines 134-141: currency is a Currency object or a str
Money__init__(amount, currency) ==
    LET d == force_decimal(amount)
        c == IF isinstance(currency, "Currency") THEN Return(currency)
             ELSE get_currency(upper(currency.val), None)
    IN  IF d.kind = "raise" THEN d
        ELSE IF c.kind = "raise" THEN c
        ELSE Return(Money(d.val, c.val))

\* lines 265-268
Money__eq__(self, other) ==
    /\ isinstance(other, "Money")
    /\ DecEq(self.amount, other.amount)
    /\ CurrencyEq(self.currency, other.currency)

\* lines 270-272
Money__ne__(self, other) == ~Money__eq__(self, other)

\* other == 0 for any object: Money.__eq__ answers for a Money, numbers compare
\* by value, None equals no number
EqualsZero(other) ==
    IF isinstance(other, "Money") THEN Money__eq__(other, PyInt(0))
    ELSE IsNumber(other) /\ other.val = DecZero

\* lines 159-160: the hash of the pair (amount, currency); a Decimal hashes by
\* its numeric value and a Currency by its code (lines 44-45)
Money__hash__(self) == <<self.amount, self.currency.code>>

\* lines 162-165
Money__pos__(self) == Return(Money(self.amount, self.currency))

\* Money.__neg__ returning the amount as it is, like __pos__
Money__neg__Pos(self) == Money__pos__(self)

\* lines 167-170
Money__neg__(self) == Return(Money(DecNeg(self.amount), self.currency))

\* lines 229-232
Money__abs__(self) == Return(Money(DecAbs(self.amount), self.currency))

\* lines 234-235
Money__bool__(self) == Return(PyBool(DecBool(self.amount)))

\* Money.__add__ taking a Money of amount zero for the number zero
Money__add__ZeroMoney(self, other) ==
    IF EqualsZero(other) \/ (isinstance(other, "Money") /\ other.amount = DecZero)
    THEN Return(self)
    ELSE IF ~isinstance(other, "Money")
    THEN Raise("TypeError", "Cannot add or subtract a Money and non-Money instance.")
    ELSE IF CurrencyEq(self.currency, other.currency)
    THEN Return(Money(DecAdd(self.amount, other.amount), self.currency))
    ELSE Raise("TypeError",
               "Cannot add or subtract two Money instances with different currencies.")

\* lines 172-186
Money__add__(self, other) ==
    IF EqualsZero(other) THEN Return(self)
    ELSE IF ~isinstance(other, "Money")
    THEN Raise("TypeError", "Cannot add or subtract a Money and non-Money instance.")
    ELSE IF CurrencyEq(self.currency, other.currency)
    THEN Return(Money(DecAdd(self.amount, other.amount), self.currency))
    ELSE Raise("TypeError",
               "Cannot add or subtract two Money instances with different currencies.")

\* Money.__radd__ without the shortcut for the number zero
Money__radd__NoZero(self, other) ==
    IF ~isinstance(other, "Money")
    THEN Raise("TypeError", "Cannot add or subtract a Money and non-Money instance.")
    ELSE Money__add__(self, other)

\* line 260
Money__radd__(self, other) == Money__add__(self, other)

\* the builtin sum(seq, acc) the comment of lines 174-175 names:
\* acc = acc + m for each m of seq, from the left
RECURSIVE sum(_, _)
sum(seq, acc) ==
    IF seq = <<>> THEN Return(acc)
    ELSE LET o == IF isinstance(acc, "Money") THEN Money__add__(acc, Head(seq))
                  ELSE Money__radd__(Head(seq), acc)
         IN  IF o.kind = "raise" THEN o ELSE sum(Tail(seq), o.val)

\* -other for any object: Money.__neg__, the negated number, or a TypeError
Negated(other) ==
    IF isinstance(other, "Money") THEN Money__neg__(other)
    ELSE IF isinstance(other, "Decimal") THEN Return(PyDecimal(DecNeg(other.val)))
    ELSE IF IsNumber(other) THEN Return([other EXCEPT !.val = Dec(-other.val.c, other.val.e)])
    ELSE Raise("TypeError", "bad operand type for unary -")

\* lines 188-189
Money__sub__(self, other) ==
    LET n == Negated(other)
    IN  IF n.kind = "raise" THEN n ELSE Money__add__(self, n.val)

\* lines 191-192
Money__rsub__(self, other) == Money__add__(Money__neg__(self).val, other)

\* Money.__mul__ refusing a float instead of warning about it
Money__mul__FloatRaises(self, other) ==
    IF isinstance(other, "Money")
    THEN Raise("TypeError", "Cannot multiply two Money instances.")
    ELSE IF isinstance(other, "float")
    THEN Raise("TypeError", "Multiplying Money instances with floats is deprecated")
    ELSE LET d == force_decimal(other)
         IN  IF d.kind = "raise" THEN d
             ELSE Return(Money(DecMul(self.amount, d.val), self.currency))

\* lines 194-202
Money__mul__(self, other) ==
    IF isinstance(other, "Money")
    THEN Raise("TypeError", "Cannot multiply two Money instances.")
    ELSE LET d == force_decimal(other)
             r == IF d.kind = "raise" THEN d
                  ELSE Return(Money(DecMul(self.amount, d.val), self.currency))
         IN  IF isinstance(other, "float") THEN Warned(r) ELSE r

\* line 261
Money__rmul__(self, other) == Money__mul__(self, other)

\* Money.__truediv__ without the check of the two currencies
Money__truediv__NoCheck(self, other) ==
    IF isinstance(other, "Money")
    THEN LET q == DecDiv(self.amount, other.amount)
         IN  IF q.kind = "raise" THEN q ELSE Return(PyDecimal(q.val))
    ELSE LET d == force_decimal(other)
             q == IF d.kind = "raise" THEN d ELSE DecDiv(self.amount, d.val)
             r == IF q.kind = "raise" THEN q
                  ELSE Return(Money(q.val, self.currency))
         IN  IF isinstance(other, "float") THEN Warned(r) ELSE r

\* lines 204-214
Money__truediv__(self, other) ==
    IF isinstance(other, "Money")
    THEN IF ~CurrencyEq(self.currency, other.currency)
         THEN Raise("TypeError", "Cannot divide two different currencies.")
         ELSE LET q == DecDiv(self.amount, other.amount)
              IN  IF q.kind = "raise" THEN q ELSE Return(PyDecimal(q.val))
    ELSE LET d == force_decimal(other)
             q == IF d.kind = "raise" THEN d ELSE DecDiv(self.amount, d.val)
             r == IF q.kind = "raise" THEN q
                  ELSE Return(Money(q.val, self.currency))
         IN  IF isinstance(other, "float") THEN Warned(r) ELSE r

\* lines 216-217
Money__rtruediv__(self, other) ==
    Raise("TypeError", "Cannot divide non-Money by a Money instance.")

\* lines 219-227
Money_round(self, ndigits) ==
    LET n == IF ndigits = PyNone THEN 0 ELSE IntOf(ndigits)
        q == DecQuantize(self.amount, n)
    IN  IF q.kind = "raise" THEN q ELSE Return(Money(q.val, self.currency))

\* lines 240-258: other % self
Money__rmod__(self, other) ==
    IF isinstance(other, "Money")
    THEN Raise("TypeError", "Invalid __rmod__ operation")
    ELSE LET d == IF IsNumber(other) THEN Return(other.val)
                  ELSE Raise("InvalidOperation", "ConversionSyntax")
             q == IF d.kind = "raise" THEN d
                  ELSE DecDiv(DecMul(d.val, self.amount), Dec(100, 0))
             r == IF q.kind = "raise" THEN q
                  ELSE Return(Money(q.val, self.currency))
         IN  IF isinstance(other, "float") THEN Warned(r) ELSE r

\* lines 274-280
Money__lt__(self, other) ==
    IF ~isinstance(other, "Money") THEN Raise("MoneyComparisonError", other)
    ELSE IF CurrencyEq(self.currency, other.currency)
    THEN Return(PyBool(DecLt(self.amount, other.amount)))
    ELSE Raise("TypeError", "Cannot compare Money with different currencies.")

\* lines 282-288
Money__gt__(self, other) ==
    IF ~isinstance(other, "Money") THEN Raise("MoneyComparisonError", other)
    ELSE IF CurrencyEq(self.currency, other.currency)
    THEN Return(PyBool(DecGt(self.amount, other.amount)))
    ELSE Raise("TypeError", "Cannot compare Money with different currencies.")

\* Money.__le__ as self == other or self < other: equality answers first, so
\* a Money of another currency or a non-Money compares where == is decided
Money__le__EqFirst(self, other) ==
    IF Money__eq__(self, other) THEN Return(PyBool(TRUE))
    ELSE IF isinstance(other, "Money") /\ ~CurrencyEq(self.currency, other.currency)
            /\ DecEq(self.amount, other.amount)
    THEN Return(PyBool(FALSE))
    ELSE Money__lt__(self, other)

\* lines 290-291: self < other or self == other
Money__le__(self, other) ==
    LET l == Money__lt__(self, other)
    IN  IF l.kind = "raise" THEN l
        ELSE IF l.val.val THEN l
        ELSE Return(PyBool(Money__eq__(self, other)))

\* lines 293-294: self > other or self == other
Money__ge__(self, other) ==
    LET g == Money__gt__(self, other)
    IN  IF g.kind = "raise" THEN g
        ELSE IF g.val.val THEN g
        ELSE Return(PyBool(Money__eq__(self, other)))

(***************************************************************************)
(* The module's add_currency statements, in order (lines 341-662).         *)
(***************************************************************************)
TABLE ==
    <<
       <<DEFAULT_CURRENCY_CODE, "999">>, <<"AED", "784">>, <<"AFN", "971">>, <<"ALL", "008">>,
       <<"AMD", "051">>, <<"ANG", "532">>, <<"AOA", "973">>, <<"ARS", "032">>,
       <<"AUD", "036">>, <<"AWG", "533">>, <<"AZN", "944">>, <<"BAM", "977">>,
       <<"BBD", "052">>, <<"BDT", "050">>, <<"BGN", "975">>, <<"BHD", "048">>,
       <<"BIF", "108">>, <<"BMD", "060">>, <<"BND", "096">>, <<"BOB", "068">>,
       <<"BOV", "984">>, <<"BRL", "986">>, <<"BSD", "044">>, <<"BTN", "064">>,
       <<"BWP", "072">>, <<"BYN", "933">>, <<"BZD", "084">>, <<"CAD", "124">>,
       <<"CDF", "976">>, <<"CHE", "947">>, <<"CHF", "756">>, <<"CHW", "948">>,
       <<"CLF", "990">>, <<"CLP", "152">>, <<"CNY", "156">>, <<"COP", "170">>,
       <<"COU", "970">>, <<"CRC", "188">>, <<"CUC", "931">>, <<"CUP", "192">>,
       <<"CVE", "132">>, <<"CZK", "203">>, <<"DJF", "262">>, <<"DKK", "208">>,
       <<"DOP", "214">>, <<"DZD", "012">>, <<"EGP", "818">>, <<"ERN", "232">>,
       <<"ETB", "230">>, <<"EUR", "978">>, <<"FJD", "242">>, <<"FKP", "238">>,
       <<"GBP", "826">>, <<"GEL", "981">>, <<"GHS", "936">>, <<"GIP", "292">>,
       <<"GMD", "270">>, <<"GNF", "324">>, <<"GTQ", "320">>, <<"GYD", "328">>,
       <<"HKD", "344">>, <<"HNL", "340">>, <<"HRK", "191">>, <<"HTG", "332">>,
       <<"HUF", "348">>, <<"IDR", "360">>, <<"ILS", "376">>, <<"IMP", "Nil">>,
       <<"INR", "356">>, <<"IQD", "368">>, <<"IRR", "364">>, <<"ISK", "352">>,
       <<"JMD", "388">>, <<"JOD", "400">>, <<"JPY", "392">>, <<"KES", "404">>,
       <<"KGS", "417">>, <<"KHR", "116">>, <<"KMF", "174">>, <<"KPW", "408">>,
       <<"KRW", "410">>, <<"KWD", "414">>, <<"KYD", "136">>, <<"KZT", "398">>,
       <<"LAK", "418">>, <<"LBP", "422">>, <<"LKR", "144">>, <<"LRD", "430">>,
       <<"LSL", "426">>, <<"LYD", "434">>, <<"MAD", "504">>, <<"MDL", "498">>,
       <<"MGA", "969">>, <<"MKD", "807">>, <<"MMK", "104">>, <<"MNT", "496">>,
       <<"MOP", "446">>, <<"MUR", "480">>, <<"MVR", "462">>, <<"MWK", "454">>,
       <<"MXN", "484">>, <<"MXV", "979">>, <<"MYR", "458">>, <<"MZN", "943">>,
       <<"NAD", "516">>, <<"NGN", "566">>, <<"NIO", "558">>, <<"NOK", "578">>,
       <<"NPR", "524">>, <<"NZD", "554">>, <<"OMR", "512">>, <<"PAB", "590">>,
       <<"PEN", "604">>, <<"PGK", "598">>, <<"PHP", "608">>, <<"PKR", "586">>,
       <<"PLN", "985">>, <<"PYG", "600">>, <<"QAR", "634">>, <<"RON", "946">>,
       <<"RSD", "941">>, <<"RUB", "643">>, <<"RWF", "646">>, <<"SAR", "682">>,
       <<"SBD", "090">>, <<"SCR", "690">>, <<"SDG", "938">>, <<"SEK", "752">>,
       <<"SGD", "702">>, <<"SHP", "654">>, <<"SLL", "694">>, <<"SOS", "706">>,
       <<"SRD", "968">>, <<"SSP", "728">>, <<"SVC", "222">>, <<"SYP", "760">>,
       <<"SZL", "748">>, <<"THB", "764">>, <<"TJS", "972">>, <<"TMT", "934">>,
       <<"TND", "788">>, <<"TOP", "776">>, <<"TRY", "949">>, <<"TTD", "780">>,
       <<"TVD", "Nil">>, <<"TWD", "901">>, <<"TZS", "834">>, <<"UAH", "980">>,
       <<"UGX", "800">>, <<"USD", "840">>, <<"USN", "997">>, <<"UYI", "940">>,
       <<"UYU", "858">>, <<"UZS", "860">>, <<"VND", "704">>, <<"VUV", "548">>,
       <<"WST", "882">>, <<"XAF", "950">>, <<"XAG", "961">>, <<"XAU", "959">>,
       <<"XBA", "955">>, <<"XBB", "956">>, <<"XBC", "957">>, <<"XBD", "958">>,
       <<"XCD", "951">>, <<"XDR", "960">>, <<"XFO", "Nil">>, <<"XFU", "Nil">>,
       <<"XOF", "952">>, <<"XPD", "964">>, <<"XPF", "953">>, <<"XPT", "962">>,
       <<"XSU", "994">>, <<"XTS", "963">>, <<"XUA", "965">>, <<"XXX", "999">>,
       <<"XXX", "999">>, <<"YER", "886">>, <<"ZAR", "710">>, <<"ZMW", "967">>,
       <<"ZWN", "942">>, <<"ADP", "020">>, <<"AFA", "004">>, <<"ALK", "008">>,
       <<"AON", "024">>, <<"AOR", "982">>, <<"ARA", "032">>, <<"ARP", "032">>,
       <<"ATS", "040">>, <<"AZM", "031">>, <<"BAD", "070">>, <<"BEF", "056">>,
       <<"BGL", "100">>, <<"BRC", "076">>, <<"BRE", "076">>, <<"BRN", "076">>,
       <<"BRR", "987">>, <<"BYR", "974">>, <<"CLE", "152">>, <<"CSD", "891">>,
       <<"CSK", "200">>, <<"CYP", "196">>, <<"DDM", "278">>, <<"DEM", "276">>,
       <<"ECS", "218">>, <<"ECV", "983">>, <<"EEK", "233">>, <<"ESA", "996">>,
       <<"ESB", "995">>, <<"ESP", "020">>, <<"FIM", "246">>, <<"FRF", "250">>,
       <<"GHC", "288">>, <<"GRD", "300">>, <<"GWP", "624">>, <<"HRD", "191">>,
       <<"IEP", "372">>, <<"ITL", "380">>, <<"LTL", "440">>, <<"LUF", "442">>,
       <<"LVL", "428">>, <<"MGF", "450">>, <<"MLF", "466">>, <<"MRO", "478">>,
       <<"MTL", "470">>, <<"MZM", "508">>, <<"NLG", "528">>, <<"PEI", "604">>,
       <<"PLZ", "616">>, <<"PTE", "620">>, <<"ROL", "642">>, <<"RUR", "810">>,
       <<"SDD", "736">>, <<"SIT", "705">>, <<"SKK", "703">>, <<"SRG", "740">>,
       <<"STD", "678">>, <<"TJR", "762">>, <<"TMM", "795">>, <<"TPE", "626">>,
       <<"TRL", "792">>, <<"UAK", "804">>, <<"USS", "998">>, <<"VEB", "862">>,
       <<"VEF", "937">>, <<"VNN", "704">>, <<"XEU", "954">>, <<"YDD", "710">>,
       <<"YUM", "891">>, <<"YUN", "890">>, <<"ZAL", "991">>, <<"ZMK", "894">>,
       <<"ZRN", "180">>, <<"ZRZ", "180">>, <<"ZWD", "716">>, <<"ZWL", "932">>,
       <<"ZWR", "935">>, <<"AOK", None>>, <<"ARL", None>>, <<"ARM", None>>,
       <<"BAN", None>>, <<"BEC", None>>, <<"BEL", None>>, <<"BGM", None>>,
       <<"BGO", None>>, <<"BOL", None>>, <<"BOP", None>>, <<"BRB", None>>,
       <<"BRZ", None>>, <<"BUK", None>>, <<"BYB", None>>, <<"CNH", None>>,
       <<"CNX", None>>, <<"GEK", None>>, <<"GNS", None>>, <<"GQE", None>>,
       <<"GWE", None>>, <<"ILP", None>>, <<"ILR", None>>, <<"ISJ", None>>,
       <<"KRH", None>>, <<"KRO", None>>, <<"LTT", None>>, <<"LUC", None>>,
       <<"LUL", None>>, <<"LVR", None>>, <<"MAF", None>>, <<"MCF", None>>,
       <<"MDC", None>>, <<"MKN", None>>, <<"MRU", None>>, <<"MTP", None>>,
       <<"MVP", None>>, <<"MXP", None>>, <<"MZE", None>>, <<"NIC", None>>,
       <<"PES", None>>, <<"RHD", None>>, <<"SDP", None>>, <<"STN", None>>,
       <<"SUR", None>>, <<"UGS", None>>, <<"UYP", None>>, <<"UYW", None>>,
       <<"VES", None>>, <<"XRE", None>>, <<"YUD", None>>, <<"YUR", None>>
    >>

(***************************************************************************)
(* Inputs of the calls.                                                    *)
(***************************************************************************)
\* add_currency calls a caller makes after the import: a new code under a
\* numeric in use, a registered code under another numeric, and a new code
\* without a numeric
RegCalls == {<<"FOO", "840">>, <<"USD", "Nil">>, <<"FOO", None>>}

\* keys looked up: registered, unregistered and lower-case codes; registered
\* and unregistered numerics, "Nil" and None
LookupCodes == {"USD", "XXX", "FOO", "ZZZ", "usd"}

LookupNumerics == {"840", "999", "032", "000", "Nil", None}

\* names of the Money objects the caller holds
Slots == {"a", "b"}

Unbound == [ty |-> "unbound"]

\* amounts a Money is constructed from
AmountInputs ==
    {PyInt(c) : c \in -1 .. MaxCoef} \cup {PyDecimal(Dec(1, BigExp))}

\* currencies a Money is constructed from: code strings (registered or not,
\* any case) and Currency objects (a registered one, and one a caller built
\* with Currency(...) and never registered)
CurrencyInputs ==
    {PyStr("usd"), PyStr("EUR"), PyStr("ZZZ"),
     Currency("USD", "840"), Currency("BTC", "Nil")}

\* non-Money operands: numbers of each type, zero and not, and None
Scalars ==
    {PyInt(0), PyInt(2), PyFloat(0, 0), PyFloat(5, -1),
     PyDecimal(DecZero), PyDecimal(Dec(3, 0))}

NonMoney == Scalars \cup {PyNone}

\* ndigits of round(): omitted (None), 0, negative and positive
NDigits == {PyNone, PyInt(0), PyInt(-1), PyInt(1)}

(***************************************************************************)
(* The state machine.                                                      *)
(***************************************************************************)
Imported == loaded = Len(TABLE)

\* the caller is between two calls: the module is imported and the last
\* call's outcome has been taken
Idle == Imported /\ ret.op = "idle"

Bound == {s \in Slots : monies[s] # Unbound}

Init ==
    /\ CURRENCIES = EmptyDict
    /\ CURRENCIES_BY_ISO = EmptyDict
    /\ loaded = 0
    /\ extra = <<>>
    /\ monies = [s \in Slots |-> Unbound]
    /\ ret = [op |-> "import"]

\* lines 305-313, for the import's next statement and for a caller's call
add_currency(code, numeric) ==
    /\ CURRENCIES' = add_currency_BY_CODE(code, numeric)
    /\ CURRENCIES_BY_ISO' = add_currency_BY_ISO(code, numeric)
    /\ ret' = [op |-> "add_currency", code |-> code, numeric |-> numeric,
               out |-> Return(add_currency_BY_CODE(code, numeric)[code])]

\* the import executes the next add_currency statement of the module
LoadNext ==
    /\ loaded < Len(TABLE)
    /\ add_currency(TABLE[loaded + 1][1], TABLE[loaded + 1][2])
    /\ loaded' = loaded + 1
    /\ UNCHANGED <<extra, monies>>

Register(code, numeric) ==
    /\ Idle
    /\ Len(extra) < MaxRegs
    /\ add_currency(code, numeric)
    /\ extra' = Append(extra, <<code, numeric>>)
    /\ UNCHANGED <<loaded, monies>>

\* get_currency(code)
LookupByCode(code) ==
    /\ Idle
    /\ ret' = [op |-> "get_currency", code |-> code, iso |-> None,
               out |-> get_currency(code, None)]
    /\ UNCHANGED <<CURRENCIES, CURRENCIES_BY_ISO, loaded, extra, monies>>

\* get_currency(iso=iso)
LookupByNumeric(iso) ==
    /\ Idle
    /\ ret' = [op |-> "get_currency", code |-> None, iso |-> iso,
               out |-> get_currency(None, iso)]
    /\ UNCHANGED <<CURRENCIES, CURRENCIES_BY_ISO, loaded, extra, monies>>

\* s = Money(amount, currency)
Construct(s, amount, currency) ==
    /\ Idle
    /\ monies[s] = Unbound
    /\ LET o == Money__init__(amount, currency)
       IN  /\ ret' = [op |-> "__init__", amount |-> amount, currency |-> currency,
                      out |-> o]
           /\ monies' = IF o.kind = "return" THEN [monies EXCEPT ![s] = o.val]
                        ELSE monies
    /\ UNCHANGED <<CURRENCIES, CURRENCIES_BY_ISO, loaded, extra>>

\* an operator of one Money
Call1(op, self, o) ==
    /\ Idle
    /\ ret' = [op |-> op, self |-> self, out |-> o]
    /\ UNCHANGED <<CURRENCIES, CURRENCIES_BY_ISO, loaded, extra, monies>>

\* an operator of a Money and another operand, written as an in-place
\* operator: a returned Money is stored into the receiver
Call2InPlace(op, self, other, o) ==
    /\ Idle
    /\ ret' = [op |-> op, self |-> self, other |-> other, out |-> o]
    /\ monies' = [s \in Slots |->
                     IF monies[s] = self /\ o.kind = "return"
                        /\ isinstance(o.val, "Money")
                     THEN o.val ELSE monies[s]]
    /\ UNCHANGED <<CURRENCIES, CURRENCIES_BY_ISO, loaded, extra>>

\* an operator of a Money and another operand
Call2(op, self, other, o) ==
    /\ Idle
    /\ ret' = [op |-> op, self |-> self, other |-> other, out |-> o]
    /\ UNCHANGED <<CURRENCIES, CURRENCIES_BY_ISO, loaded, extra, monies>>

Pos(s) == Call1("__pos__", monies[s], Money__pos__(monies[s]))

Neg(s) == Call1("__neg__", monies[s], Money__neg__(monies[s]))

AbsOf(s) == Call1("__abs__", monies[s], Money__abs__(monies[s]))

Bool(s) == Call1("__bool__", monies[s], Money__bool__(monies[s]))

Hash(s) == Call1("__hash__", monies[s], Return(PyHash(Money__hash__(monies[s]))))

Round(s, n) == Call2("round", monies[s], n, Money_round(monies[s], n))

Add(s, x) == Call2("__add__", monies[s], x, Money__add__(monies[s], x))

RAdd(s, x) == Call2("__radd__", monies[s], x, Money__radd__(monies[s], x))

Sub(s, x) == Call2("__sub__", monies[s], x, Money__sub__(monies[s], x))

RSub(s, x) == Call2("__rsub__", monies[s], x, Money__rsub__(monies[s], x))

Mul(s, x) == Call2("__mul__", monies[s], x, Money__mul__(monies[s], x))

RMul(s, x) == Call2("__rmul__", monies[s], x, Money__rmul__(monies[s], x))

TrueDiv(s, x) == Call2("__truediv__", monies[s], x, Money__truediv__(monies[s], x))

RTrueDiv(s, x) == Call2("__rtruediv__", monies[s], x, Money__rtruediv__(monies[s], x))

RMod(s, x) == Call2("__rmod__", monies[s], x, Money__rmod__(monies[s], x))

Eq(s, x) == Call2("__eq__", monies[s], x, Return(PyBool(Money__eq__(monies[s], x))))

Ne(s, x) == Call2("__ne__", monies[s], x, Return(PyBool(Money__ne__(monies[s], x))))

Lt(s, x) == Call2("__lt__", monies[s], x, Money__lt__(monies[s], x))

Gt(s, x) == Call2("__gt__", monies[s], x, Money__gt__(monies[s], x))

Le(s, x) == Call2("__le__", monies[s], x, Money__le__(monies[s], x))

Ge(s, x) == Call2("__ge__", monies[s], x, Money__ge__(monies[s], x))

\* the caller takes the outcome of the last call (binds or drops the value,
\* handles the exception) and is ready for the next call
Discard ==
    /\ Imported
    /\ ret.op # "idle"
    /\ ret' = [op |-> "idle"]
    /\ UNCHANGED <<CURRENCIES, CURRENCIES_BY_ISO, loaded, extra, monies>>

\* sum(seq) over the Money objects named by seq: the builtin starts from the
\* int 0, so the first addition is Money.__radd__(m, 0) and the later ones are
\* Money.__add__(acc, m)
Sum(seq) ==
    Call2("sum", PyInt(0), [i \in DOMAIN seq |-> monies[seq[i]]],
          sum([i \in DOMAIN seq |-> monies[seq[i]]], PyInt(0)))

\* the sequences a caller sums: up to three of the Money objects it holds
SumSeqs ==
    {<<>>} \cup {<<s>> : s \in Bound} \cup {<<s, t>> : s \in Bound, t \in Bound}
    \cup {<<s, t, u>> : s \in Bound, t \in Bound, u \in Bound}

\* the operands a caller can pass: a Money it holds, or a non-Money object
Operands == {monies[s] : s \in Bound} \cup NonMoney

NextRegistry ==
    \/ LoadNext
    \/ \E call \in RegCalls : Register(call[1], call[2])
    \/ \E code \in LookupCodes : LookupByCode(code)
    \/ \E iso \in LookupNumerics : LookupByNumeric(iso)

NextMoney ==
    \/ \E s \in Slots, amount \in AmountInputs, currency \in CurrencyInputs :
           Construct(s, amount, currency)
    \/ \E s \in Bound : Pos(s)
    \/ \E s \in Bound : Neg(s)
    \/ \E s \in Bound : AbsOf(s)
    \/ \E s \in Bound : Bool(s)
    \/ \E s \in Bound : Hash(s)
    \/ \E s \in Bound, n \in NDigits : Round(s, n)
    \/ \E s \in Bound, x \in Operands : Add(s, x)
    \/ \E s \in Bound, x \in Operands : RAdd(s, x)
    \/ \E s \in Bound, x \in Operands : Sub(s, x)
    \/ \E s \in Bound, x \in Operands : RSub(s, x)
    \/ \E s \in Bound, x \in Operands : Mul(s, x)
    \/ \E s \in Bound, x \in Operands : RMul(s, x)
    \/ \E s \in Bound, x \in Operands : TrueDiv(s, x)
    \/ \E s \in Bound, x \in Operands : RTrueDiv(s, x)
    \/ \E s \in Bound, x \in Operands : RMod(s, x)
    \/ \E s \in Bound, x \in Operands : Eq(s, x)
    \/ \E s \in Bound, x \in Operands : Ne(s, x)
    \/ \E s \in Bound, x \in Operands : Lt(s, x)
    \/ \E s \in Bound, x \in Operands : Gt(s, x)
    \/ \E s \in Bound, x \in Operands : Le(s, x)
    \/ \E s \in Bound, x \in Operands : Ge(s, x)
    \/ \E seq \in SumSeqs : Sum(seq)

Next == NextRegistry \/ NextMoney \/ Discard

Spec == Init /\ [][Next]_vars

\* the registry alone: the import, later add_currency calls and lookups
SpecRegistry == Init /\ [][NextRegistry \/ Discard]_vars

\* Money alone: the import, then constructions and operators
SpecMoney == Init /\ [][LoadNext \/ NextMoney \/ Discard]_vars

(***************************************************************************)
(* The error kinds of the specification, as the code raises them: both     *)
(* CurrencyMismatch and InvalidOperand are TypeErrors, told apart by what  *)
(* they say.                                                               *)
(***************************************************************************)
CurrencyMismatchMessages ==
    {"Cannot add or subtract two Money instances with different currencies.",
     "Cannot divide two different currencies.",
     "Cannot compare Money with different currencies."}

InvalidOperandMessages ==
    {"Cannot add or subtract a Money and non-Money instance.",
     "Cannot multiply two Money instances.",
     "Cannot divide non-Money by a Money instance.",
     "Invalid __rmod__ operation"}

IsCurrencyMismatch(o) ==
    o.kind = "raise" /\ o.exc = "TypeError" /\ o.arg \in CurrencyMismatchMessages

IsInvalidOperand(o) ==
    o.kind = "raise" /\ o.exc = "TypeError" /\ o.arg \in InvalidOperandMessages

SameCode(m1, m2) == m1.currency.code = m2.currency.code

\* the last call was a binary operator in ops with a Money as its other operand
MoneyCall(ops) == ret.op \in ops /\ isinstance(ret.other, "Money")

\* the last call was a binary operator in ops with a non-Money operand
NonMoneyCall(ops) == ret.op \in ops /\ ~isinstance(ret.other, "Money")

(***************************************************************************)
(* C1: a + b of two Money values returns a value iff the two currency      *)
(* codes are equal, and then a Money of amount a.amount + b.amount (the    *)
(* Decimal sum) and currency a.currency; with different codes it raises    *)
(* the currency-mismatch error, also when an amount is zero.               *)
(***************************************************************************)
C1_AddMoney ==
    MoneyCall({"__add__"}) =>
        IF SameCode(ret.self, ret.other)
        THEN ret.out = Return(Money(DecAdd(ret.self.amount, ret.other.amount),
                                    ret.self.currency))
        ELSE IsCurrencyMismatch(ret.out)

\* a Money of amount zero and another currency was added, and the sum failed
C1_Witness ==
    /\ MoneyCall({"__add__"})
    /\ ~SameCode(ret.self, ret.other)
    /\ ret.other.amount = DecZero
    /\ ret.out.kind = "raise"

(***************************************************************************)
(* C2: m + x and x + m with x not a Money return m itself when x is a      *)
(* number equal to zero and raise the invalid-operand error otherwise;     *)
(* sum() over Money values of one currency, which starts from the int 0,   *)
(* returns the Money of their added amounts.                               *)
(***************************************************************************)
RECURSIVE AddedAmounts(_)
\* the amounts of a non-empty sequence of Money added from the left
AddedAmounts(seq) ==
    IF Len(seq) = 1 THEN seq[1].amount
    ELSE DecAdd(AddedAmounts(SubSeq(seq, 1, Len(seq) - 1)), seq[Len(seq)].amount)

C2_AddZero ==
    /\ NonMoneyCall({"__add__", "__radd__"}) =>
           IF IsNumber(ret.other) /\ ret.other.val = DecZero
           THEN ret.out = Return(ret.self)
           ELSE IsInvalidOperand(ret.out)
    /\ (/\ ret.op = "sum"
        /\ ret.other # <<>>
        /\ \A i \in DOMAIN ret.other : SameCode(ret.other[i], ret.other[1]))
       => ret.out = Return(Money(IF Len(ret.other) = 1 THEN ret.other[1].amount
                                 ELSE AddedAmounts(ret.other),
                                 ret.other[1].currency))

\* sum() was taken over two Money values of one currency, neither zero
C2_Witness ==
    /\ ret.op = "sum"
    /\ Len(ret.other) = 2
    /\ SameCode(ret.other[1], ret.other[2])
    /\ ret.other[1].amount # DecZero
    /\ ret.other[2].amount # DecZero
    /\ ret.out.kind = "return"

(***************************************************************************)
(* C3: a < b, a <= b, a > b, a >= b raise MoneyComparisonError carrying b  *)
(* when b is not a Money, raise the currency-mismatch error when b is a    *)
(* Money of another currency code (also with equal amounts), and otherwise *)
(* return the comparison of the two amounts.                               *)
(***************************************************************************)
CompareOps == {"__lt__", "__le__", "__gt__", "__ge__"}

AmountsCompare(op, x, y) ==
    CASE op = "__lt__" -> DecCmp(x, y) < 0
      [] op = "__le__" -> DecCmp(x, y) <= 0
      [] op = "__gt__" -> DecCmp(x, y) > 0
      [] op = "__ge__" -> DecCmp(x, y) >= 0

C3_Ordering ==
    /\ NonMoneyCall(CompareOps) => ret.out = Raise("MoneyComparisonError", ret.other)
    /\ MoneyCall(CompareOps) =>
           IF SameCode(ret.self, ret.other)
           THEN ret.out = Return(PyBool(AmountsCompare(ret.op, ret.self.amount,
                                                       ret.other.amount)))
           ELSE IsCurrencyMismatch(ret.out)

\* a <= b was asked of two Money values of equal amounts and different
\* currencies
C3_Witness ==
    /\ MoneyCall({"__le__"})
    /\ ~SameCode(ret.self, ret.other)
    /\ ret.self.amount = ret.other.amount
    /\ ret.out.kind = "raise"

(***************************************************************************)
(* C4 as claimed: a / b of two Money values of one currency code returns   *)
(* the Decimal a.amount / b.amount, of different codes raises the          *)
(* currency-mismatch error; a / s for a number s returns a Money of amount *)
(* a.amount / s and currency a.currency; s / a raises the invalid-operand  *)
(* error for every non-Money s.                                            *)
(***************************************************************************)
C4_DivisionAlwaysReturns ==
    /\ MoneyCall({"__truediv__"}) =>
           IF SameCode(ret.self, ret.other)
           THEN /\ ret.out.kind = "return"
                /\ isinstance(ret.out.val, "Decimal")
                /\ DecDiv(ret.self.amount, ret.other.amount).kind = "return"
                /\ ret.out.val.val = DecDiv(ret.self.amount, ret.other.amount).val
           ELSE IsCurrencyMismatch(ret.out)
    /\ (NonMoneyCall({"__truediv__"}) /\ IsNumber(ret.other)) =>
           /\ ret.out.kind = "return"
           /\ isinstance(ret.out.val, "Money")
           /\ DecDiv(ret.self.amount, ret.other.val).kind = "return"
           /\ ret.out.val = Money(DecDiv(ret.self.amount, ret.other.val).val,
                                  ret.self.currency)
    /\ NonMoneyCall({"__rtruediv__"}) => IsInvalidOperand(ret.out)

\* the error Decimal division raises on a zero divisor
DivisionError(x) ==
    IF x = DecZero THEN Raise("InvalidOperation", "DivisionUndefined")
    ELSE Raise("DivisionByZero", "DivisionByZero")

(***************************************************************************)
(* C4 as amended: the same with a divisor that is not zero; when b.amount  *)
(* or s is zero the division raises the decimal module's division error    *)
(* (DivisionByZero, or InvalidOperation for 0 / 0) and returns nothing.    *)
(***************************************************************************)
C4_Division ==
    /\ MoneyCall({"__truediv__"}) =>
           IF ~SameCode(ret.self, ret.other) THEN IsCurrencyMismatch(ret.out)
           ELSE IF ret.other.amount = DecZero
           THEN ret.out = DivisionError(ret.self.amount)
           ELSE ret.out = Return(PyDecimal(DecDiv(ret.self.amount,
                                                  ret.other.amount).val))
    /\ (NonMoneyCall({"__truediv__"}) /\ IsNumber(ret.other)) =>
           IF ret.other.val = DecZero
           THEN /\ ret.out.kind = "raise"
                /\ <<ret.out.exc, ret.out.arg>> =
                       <<DivisionError(ret.self.amount).exc,
                         DivisionError(ret.self.amount).arg>>
           ELSE /\ ret.out.kind = "return"
                /\ ret.out.val = Money(DecDiv(ret.self.amount, ret.other.val).val,
                                       ret.self.currency)
    /\ NonMoneyCall({"__rtruediv__"}) => IsInvalidOperand(ret.out)

\* a Money was divided by a Money of the same currency and amount zero
C4_Witness ==
    /\ MoneyCall({"__truediv__"})
    /\ SameCode(ret.self, ret.other)
    /\ ret.other.amount = DecZero
    /\ ret.self.amount # DecZero
    /\ ret.out.kind = "raise"

(***************************************************************************)
(* C5: Money * Money raises the invalid-operand error whatever the         *)
(* currencies; m * s and s * m for a number s return a Money of amount     *)
(* m.amount * s (the Decimal product with Decimal(str(s))) and currency    *)
(* m.currency; a float s emits a DeprecationWarning and the product is     *)
(* still returned, any other number emits none.                            *)
(***************************************************************************)
C5_Multiplication ==
    /\ MoneyCall({"__mul__", "__rmul__"}) => IsInvalidOperand(ret.out)
    /\ (NonMoneyCall({"__mul__", "__rmul__"}) /\ IsNumber(ret.other)) =>
           /\ ret.out.kind = "return"
           /\ ret.out.val = Money(DecMul(ret.self.amount, ret.other.val),
                                  ret.self.currency)
           /\ ret.out.warn = isinstance(ret.other, "float")

\* a float multiplied a Money from the left: a warning and a product
C5_Witness ==
    /\ ret.op = "__rmul__"
    /\ isinstance(ret.other, "float")
    /\ ret.out.kind = "return"
    /\ ret.out.warn
    /\ ret.out.val.amount # DecZero

(***************************************************************************)
(* The add_currency calls made so far, in order: the statements of the     *)
(* module the import has executed, then the callers' calls.                *)
(***************************************************************************)
Calls ==
    [i \in 1 .. loaded + Len(extra) |->
        IF i <= loaded THEN TABLE[i] ELSE extra[i - loaded]]

\* the last call that registered under the numeric n
LastCall(n) ==
    CHOOSE i \in DOMAIN Calls :
        /\ Calls[i][2] = n
        /\ \A j \in DOMAIN Calls : Calls[j][2] = n => j <= i

\* the numeric strings registered so far (None is the absence of a numeric)
NumericsRegistered == {Calls[i][2] : i \in DOMAIN Calls} \ {None}

(***************************************************************************)
(* C6: after any sequence of add_currency calls, get_currency(iso=n) for   *)
(* a numeric string n returns the Currency made by the most recent call    *)
(* whose numeric was n, however many codes were registered under n before; *)
(* once the module is imported, get_currency(iso="840") returns USD.       *)
(***************************************************************************)
C6_LastRegisteredWins ==
    /\ \A n \in NumericsRegistered :
           get_currency(None, n) = Return(Currency(Calls[LastCall(n)][1], n))
    /\ (Imported /\ extra = <<>>) =>
           get_currency(None, "840") = Return(Currency("USD", "840"))
    /\ (ret.op = "get_currency" /\ ret.iso \in NumericsRegistered) =>
           ret.out = Return(Currency(Calls[LastCall(ret.iso)][1], ret.iso))

\* "032" was looked up after the import, which registered ARS, ARA and ARP
\* under it in that order, and ARP came back
C6_Witness ==
    /\ ret.op = "get_currency"
    /\ ret.iso = "032"
    /\ Cardinality({i \in DOMAIN Calls : Calls[i][2] = "032"}) = 3
    /\ ret.out = Return(Currency("ARP", "032"))

(***************************************************************************)
(* C7: every failed lookup, by code or by numeric, raises                  *)
(* CurrencyDoesNotExist carrying the key that was queried (the code, or    *)
(* the numeric), and leaves both registry dicts unchanged.                 *)
(***************************************************************************)
C7_ErrorCarriesKey ==
    [][(ret'.op = "get_currency" /\ ret'.out.kind = "raise") =>
           /\ ret'.out.exc = "CurrencyDoesNotExist"
           /\ ret'.out.arg = (IF ret'.iso # None THEN ret'.iso ELSE ret'.code)
           /\ UNCHANGED <<CURRENCIES, CURRENCIES_BY_ISO>>]_vars

\* the part the code keeps: the error is CurrencyDoesNotExist, a failed
\* lookup by code carries the code, and the dicts are unchanged
C7_ErrorKind ==
    [][(ret'.op = "get_currency" /\ ret'.out.kind = "raise") =>
           /\ ret'.out.exc = "CurrencyDoesNotExist"
           /\ ret'.out.arg = ret'.code
           /\ UNCHANGED <<CURRENCIES, CURRENCIES_BY_ISO>>]_vars

(***************************************************************************)
(* C8 as claimed: add_currency(code, numeric) returns a Currency c, and    *)
(* right after it get_currency(code) returns c and get_currency(iso=       *)
(* numeric) returns c, for every numeric of the table, None and "Nil"      *)
(* included, whether code was registered before or not; at any time every  *)
(* registered Currency c satisfies get_currency(c.code) == c.              *)
(***************************************************************************)
RegisteredCurrencies ==
    {CURRENCIES[k] : k \in DOMAIN CURRENCIES}
    \cup {CURRENCIES_BY_ISO[k] : k \in DOMAIN CURRENCIES_BY_ISO}

LookupByCodeAgrees ==
    \A c \in RegisteredCurrencies :
        /\ get_currency(c.code, None).kind = "return"
        /\ CurrencyEq(get_currency(c.code, None).val, c)

C8_IndexedUnderBothKeys ==
    /\ ret.op = "add_currency" =>
           /\ ret.out.kind = "return"
           /\ get_currency(ret.code, None) = ret.out
           /\ get_currency(None, ret.numeric) = ret.out
    /\ LookupByCodeAgrees

(***************************************************************************)
(* C8 as amended: the same for a numeric that is a non-empty string ("Nil" *)
(* included); with the numeric None the Currency is stored under the key   *)
(* None of the numeric dict, and get_currency(iso=None) does not return    *)
(* it: it raises CurrencyDoesNotExist.                                     *)
(***************************************************************************)
C8_Register ==
    /\ ret.op = "add_currency" =>
           /\ ret.out = Return(Currency(ret.code, ret.numeric))
           /\ get_currency(ret.code, None) = ret.out
           /\ CURRENCIES_BY_ISO[ret.numeric] = ret.out.val
           /\ IF ret.numeric # None
              THEN get_currency(None, ret.numeric) = ret.out
              ELSE get_currency(None, ret.numeric) =
                       Raise("CurrencyDoesNotExist", None)
    /\ LookupByCodeAgrees

\* a caller registered the code USD again, under the numeric "Nil" that
\* other codes have
C8_Witness ==
    /\ ret.op = "add_currency"
    /\ extra = <<<<"USD", "Nil">>>>
    /\ Cardinality(DOMAIN CURRENCIES) = Cardinality({Calls[i][1] : i \in 1 .. loaded})
    /\ get_currency(None, "Nil") = ret.out

(***************************************************************************)
(* C9 as claimed: the currency of every Money that exists, built from a    *)
(* code string or from a Currency object or returned by an operation, is   *)
(* an entry of the registry (by code), also after later add_currency       *)
(* calls; constructing a Money from a code string that, upper-cased, is    *)
(* not registered raises CurrencyDoesNotExist and makes no Money.          *)
(***************************************************************************)
\* the Money the last call returned, if it returned one
ReturnedMoney ==
    IF ret.op \notin {"import", "idle"} /\ ret.out.kind = "return"
       /\ isinstance(ret.out.val, "Money")
    THEN {ret.out.val} ELSE {}

MoneyThatExists == {monies[s] : s \in Bound} \cup ReturnedMoney

\* the registry has an entry equal to currency (Currency equality is by code)
IsRegistered(currency) ==
    \E k \in DOMAIN CURRENCIES : CurrencyEq(CURRENCIES[k], currency)

ConstructFromStr == ret.op = "__init__" /\ isinstance(ret.currency, "str")

UnknownCodeFails ==
    (ConstructFromStr /\ upper(ret.currency.val) \notin DOMAIN CURRENCIES) =>
        ret.out = Raise("CurrencyDoesNotExist", upper(ret.currency.val))

C9_EveryCurrencyRegistered ==
    /\ \A m \in MoneyThatExists : IsRegistered(m.currency)
    /\ UnknownCodeFails

\* the Currency objects callers pass to Money(...)
CurrencyObjects == {c \in CurrencyInputs : isinstance(c, "Currency")}

(***************************************************************************)
(* C9 as amended: a Money built from a code string has the registry's      *)
(* entry for the upper-cased code, a Money built from a Currency object    *)
(* has that object, looked up nowhere, and a Money an operation returns    *)
(* has its operand's currency; so the currency of every Money that exists  *)
(* is an entry of the registry (by code), also after later add_currency    *)
(* calls, unless it is a Currency object a caller built and never          *)
(* registered; an unregistered code string fails as claimed.               *)
(***************************************************************************)
C9_CurrencyRegisteredOrPassed ==
    /\ \A m \in MoneyThatExists :
           IsRegistered(m.currency) \/ m.currency \in CurrencyObjects
    /\ (ConstructFromStr /\ upper(ret.currency.val) \in DOMAIN CURRENCIES) =>
           ret.out = Return(Money(ret.amount.val, CURRENCIES[upper(ret.currency.val)]))
    /\ (ret.op = "__init__" /\ isinstance(ret.currency, "Currency")) =>
           ret.out = Return(Money(ret.amount.val, ret.currency))
    /\ \A m \in ReturnedMoney :
           m.currency = (IF ret.op = "__init__" THEN m.currency
                         ELSE IF ret.op = "sum" THEN ret.other[1].currency
                         ELSE ret.self.currency)
    /\ UnknownCodeFails

\* a Money was built from the str "usd", a caller then registered USD again
\* under another numeric, and the Money was negated
C9_Witness ==
    /\ extra = <<<<"USD", "Nil">>>>
    /\ ret.op = "__neg__"
    /\ ret.self.currency = Currency("USD", "840")
    /\ CURRENCIES["USD"] = Currency("USD", "Nil")
    /\ ret.out.kind = "return"

(***************************************************************************)
(* C10 as claimed: for all Money m1, m2 of one currency code, whatever the *)
(* amounts, m1 + m2 == m2 + m1 and (m1 + m2) - m2 == m1.                   *)
(***************************************************************************)
Commutes(m1, m2) ==
    /\ Money__add__(m1, m2).kind = "return"
    /\ Money__add__(m2, m1).kind = "return"
    /\ Money__eq__(Money__add__(m1, m2).val, Money__add__(m2, m1).val)

RoundTrips(m1, m2) ==
    /\ Money__add__(m1, m2).kind = "return"
    /\ Money__sub__(Money__add__(m1, m2).val, m2).kind = "return"
    /\ Money__eq__(Money__sub__(Money__add__(m1, m2).val, m2).val, m1)

\* the pairs of Money objects of one currency code the caller holds
SameCurrencyPairs ==
    {p \in {<<monies[s], monies[t]>> : s \in Bound, t \in Bound} :
        SameCode(p[1], p[2])}

C10_AddSubtractRoundTrip ==
    \A p \in SameCurrencyPairs : Commutes(p[1], p[2]) /\ RoundTrips(p[1], p[2])

\* TRUE iff the Decimal d has no more digits than the context keeps
Fits(d) == DecExact(d.c, d.e)

\* TRUE iff m1.amount + m2.amount is computed without rounding
SumFits(m1, m2) ==
    DecExact(ExactSum(m1.amount, m2.amount)[1], ExactSum(m1.amount, m2.amount)[2])

(***************************************************************************)
(* C10 as amended: for all Money m1, m2 of one currency code and finite    *)
(* amounts, m1 + m2 == m2 + m1; and (m1 + m2) - m2 == m1 whenever          *)
(* m1.amount, m2.amount and their exact sum each have no more significant  *)
(* digits than the decimal context keeps (28 by default).  A longer sum is *)
(* rounded by the addition and the round trip loses the difference.        *)
(***************************************************************************)
C10_RoundTripWhenExact ==
    \A p \in SameCurrencyPairs :
        /\ Commutes(p[1], p[2])
        /\ (Fits(p[1].amount) /\ Fits(p[2].amount) /\ SumFits(p[1], p[2]))
               => RoundTrips(p[1], p[2])

\* a + b was called on a negative a and a large b of one currency whose sum
\* the context holds without rounding
C10_Witness ==
    /\ MoneyCall({"__add__"})
    /\ <<ret.self, ret.other>> \in SameCurrencyPairs
    /\ ret.self.amount.c < 0
    /\ ret.other.amount.e > 0
    /\ SumFits(ret.self, ret.other)
    /\ ret.out.kind = "return"
    /\ RoundTrips(ret.self, ret.other)

(***************************************************************************)
(* The calls of the Money operators, by the name the call is recorded      *)
(* under, and the calls that only read the registry.                       *)
(***************************************************************************)
MoneyOperations ==
    {"__pos__", "__neg__", "__abs__", "__add__", "__radd__", "__sub__",
     "__rsub__", "__mul__", "__rmul__", "__truediv__", "__rtruediv__",
     "__rmod__", "round", "__eq__", "__ne__", "__lt__", "__gt__", "__le__",
     "__ge__", "__bool__", "__hash__", "sum"}

RegistryReads == {"get_currency", "__init__"}

(***************************************************************************)
(* C11: no Money operator (unary plus, negation, abs, add, subtract,       *)
(* multiply, divide, percentage-of, round, the comparisons, truthiness,    *)
(* hash), whether it returns or raises, changes the amount or currency of  *)
(* any Money object, its operands included; neither these nor a lookup     *)
(* nor a construction changes CURRENCIES or CURRENCIES_BY_ISO or a Money   *)
(* that exists; only add_currency changes the two dicts.                   *)
(***************************************************************************)
C11_OperationsLeaveOperands ==
    [][/\ ret'.op \in MoneyOperations =>
              /\ monies' = monies
              /\ UNCHANGED <<CURRENCIES, CURRENCIES_BY_ISO>>
       /\ ret'.op \in RegistryReads =>
              /\ \A s \in Bound : monies'[s] = monies[s]
              /\ UNCHANGED <<CURRENCIES, CURRENCIES_BY_ISO>>
       /\ <<CURRENCIES, CURRENCIES_BY_ISO>>' # <<CURRENCIES, CURRENCIES_BY_ISO>> =>
              ret'.op = "add_currency"]_vars

\* after a caller's add_currency call, a division of the two Money objects
\* the caller holds, of different currencies, has raised, and the caller
\* still holds both operands as they were passed
C11_Witness ==
    /\ ret.op = "__truediv__"
    /\ ret.out.kind = "raise"
    /\ ret.self = monies["a"]
    /\ ret.other = monies["b"]
    /\ ~SameCode(monies["a"], monies["b"])
    /\ extra # <<>>

(***************************************************************************)
(* The numerics a lookup can be made with: the keys of the numeric dict    *)
(* and the numerics callers ask for.                                       *)
(***************************************************************************)
NumericKeys == DOMAIN CURRENCIES_BY_ISO \cup LookupNumerics

\* TRUE iff a caller registered the code again under a numeric other than n
Renumbered(code, n) ==
    \E i \in DOMAIN extra : extra[i][1] = code /\ extra[i][2] # n

(***************************************************************************)
(* C12: after any sequence of add_currency calls, a call that registers an *)
(* existing code under another numeric included, for every numeric n for   *)
(* which get_currency(iso=n) returns a Currency c: c.numeric == n and      *)
(* get_currency(c.code) returns that same entry, with the same numeric;    *)
(* the numeric dict never holds an entry the code dict has replaced.       *)
(***************************************************************************)
C12_IndexesAgree ==
    \A n \in NumericKeys :
        get_currency(None, n).kind = "return" =>
            /\ get_currency(None, n).val.numeric = n
            /\ get_currency(get_currency(None, n).val.code, None)
                   = get_currency(None, n)

\* the part the code keeps: the entry found under n has the numeric n and a
\* code that is registered, and it is the entry of the code dict unless a
\* caller registered its code again under another numeric (the statements of
\* the module register no code under two numerics)
C12_AgreeUnlessRenumbered ==
    \A n \in NumericKeys :
        get_currency(None, n).kind = "return" =>
            /\ get_currency(None, n).val.numeric = n
            /\ get_currency(get_currency(None, n).val.code, None).kind = "return"
            /\ ~Renumbered(get_currency(None, n).val.code, n) =>
                   get_currency(get_currency(None, n).val.code, None)
                       = get_currency(None, n)

====
